---------------------------- MODULE Spec2Model ----------------------------
(***************************************************************************)
(* Model of the ESP32 / FreeRTOS environmental monitor (main.cpp, kept as  *)
(* src/unnamed/part_000; Primercorte_freeRTOS.ino is the same program with *)
(* the light threshold 5000 instead of 500).                               *)
(*                                                                         *)
(* Encoding.  A float is modelled by the integer number of hundredths it   *)
(* holds (25.0 is 2500), which is exact for every value the model draws    *)
(* and is what "%.2f" prints; NaN is the reserved code NaN.  A queue is a  *)
(* sequence, a binary semaphore is 0 or 1, a task is its position pc[t]    *)
(* and its locals.  Tasks interleave freely: a step of the model is one    *)
(* call of the FreeRTOS API together with the local computation around it. *)
(* vTaskDelay is not a separate position: a delayed task is a task that    *)
(* has not been scheduled yet.  tareaLDR and tareaRTC read a value no      *)
(* other task can see and then wait for room in their queue: their loop    *)
(* body is one step, taken when the queue has room, and a full queue       *)
(* blocks it.  temp and hum of tareaDHT end with the loop body and are     *)
(* returned to an empty value there; a local that is written and read      *)
(* within one step (rtcData of tareaMostrar and of tareaCrearTrama) is not *)
(* a variable of the model.                                                *)
(***************************************************************************)
EXTENDS Integers, Sequences, FiniteSets, TLC

(* ------------------------------------------------------------------ *)
(* Program constants                                                  *)
(* ------------------------------------------------------------------ *)
SensorQueueLength == 10
RtcQueueLength == 5
TramaQueueLength == 5
LightThreshold == 500
TempThreshold == 2400
HumThreshold == 7000
Absent == -1
AbsentF == -100
NaN == -999999

(* ------------------------------------------------------------------ *)
(* Bounds of the model                                                *)
(* ------------------------------------------------------------------ *)
MaxPresses == 2
MaxWakes == 2
MaxCycles == 3
AlarmCycles == 2
MaxGives == 2
PressCycles == 2
FillCycles == 11
FillClockCycles == 6
ChannelCycles == 2
BlockCycles == 11
BlockClockCycles == 12
RacePresses == 2

Tasks == {"DHT", "LDR", "RTC", "Mostrar", "Alarma", "CrearTrama",
          "MostrarTrama", "MostrarContador", "GestionSleep"}

VARIABLES
  power,          \* "boot" | "halted" | "running" | "sleeping"
  contador,       \* RTC_DATA_ATTR int contador
  wakeCounter,    \* RTC_DATA_ATTR int wakeCounter
  sensorQueue,    \* QueueHandle_t sensorQueue (SensorData)
  rtcQueue,       \* QueueHandle_t rtcQueue (RTCData)
  tramaQueue,     \* QueueHandle_t tramaQueue (char[100])
  ledSemaphore,   \* SemaphoreHandle_t ledSemaphore: 0 empty, 1 given
  led,            \* level of LED_PIN
  pc,             \* position of every task
  dht,            \* tareaDHT: temp, hum
  receivedData,   \* tareaMostrar: receivedData
  sensorData,     \* tareaCrearTrama: sensorData
  sensorDataSet,  \* tareaCrearTrama: sensorData has been written
  lastTemperature,\* tareaCrearTrama: static lastTemperature
  lastHumidity,   \* tareaCrearTrama: static lastHumidity
  trama,          \* tareaCrearTrama: trama
  shown,          \* last value tareaMostrarContador printed
  dhtErrors,      \* error lines tareaDHT printed in this pass
  cycles,         \* loop bodies started by tareaDHT, tareaLDR and tareaRTC in this pass
  gives,          \* xSemaphoreGive calls since the last xSemaphoreTake
  unanswered,     \* samples tareaMostrar received in this pass with the alarm
                  \* condition true, less the times the LED was turned on in it
  edges,          \* qualifying button edges since cold start
  isr,            \* buttonISR: per line, the value of contador it has loaded, or -1
  fbSamples       \* SensorData received by tareaCrearTrama in this pass

persistent == <<contador, wakeCounter>>
queues == <<sensorQueue, rtcQueue, tramaQueue>>
alarm == <<ledSemaphore, led, gives, unanswered>>
producerLocals == <<dht, receivedData>>
tramaLocals == <<sensorData, sensorDataSet, lastTemperature, lastHumidity, trama, fbSamples>>
budget == <<cycles>>
serial == <<shown, dhtErrors>>
vars == <<power, contador, wakeCounter, sensorQueue, rtcQueue, tramaQueue,
          ledSemaphore, led, pc, dht, receivedData,
          sensorData, sensorDataSet, lastTemperature, lastHumidity, trama,
          shown, dhtErrors, cycles, gives, unanswered, edges, isr, fbSamples>>

(* ------------------------------------------------------------------ *)
(* Data                                                               *)
(* ------------------------------------------------------------------ *)
SensorData(t, h, l) == [temperature |-> t, humidity |-> h, light |-> l]
RTCData(hh, mi, ss, dd, mo, yy) ==
  [hour |-> hh, minute |-> mi, second |-> ss, day |-> dd, month |-> mo, year |-> yy]

\* the two interrupt lines, BUTTON_PIN_1 and BUTTON_PIN_2, and no call of
\* buttonISR in flight on either
Lines == {18, 19}
NoIsr == [l \in Lines |-> -1]

NoReading == [temp |-> 0, hum |-> 0]
NoSample == SensorData(0, 0, 0)

isnan(x) == x = NaN

(* printf conversions *)
\* variant: "%d" in place of "%02d"
Pad2_unpadded(n) == ToString(n)
Pad2(n) == IF n < 10 THEN "0" \o ToString(n) ELSE ToString(n)
Pad4(n) == IF n < 10 THEN "000" \o ToString(n)
           ELSE IF n < 100 THEN "00" \o ToString(n)
           ELSE IF n < 1000 THEN "0" \o ToString(n)
           ELSE ToString(n)
Fmt2f(x) == IF x < 0
            THEN "-" \o ToString((0 - x) \div 100) \o "." \o Pad2((0 - x) % 100)
            ELSE ToString(x \div 100) \o "." \o Pad2(x % 100)
FormatTrama(r, t, h, l) ==
  Pad2(r.day) \o "/" \o Pad2(r.month) \o "/" \o Pad4(r.year) \o " " \o
  Pad2(r.hour) \o ":" \o Pad2(r.minute) \o ":" \o Pad2(r.second) \o
  ", Temp: " \o Fmt2f(t) \o " C, Hum: " \o Fmt2f(h) \o "%, Luz: " \o ToString(l)

(* ------------------------------------------------------------------ *)
(* Initial state: cold start, before setup()                          *)
(* ------------------------------------------------------------------ *)
StartPc == [t \in Tasks |->
              CASE t \in {"DHT", "LDR", "RTC"} -> "read"
                [] t = "Mostrar" -> "recvSensor"
                [] t = "Alarma" -> "take"
                [] t = "CrearTrama" -> "recvSensor"
                [] t = "MostrarTrama" -> "recv"
                [] t = "MostrarContador" -> "print"
                [] t = "GestionSleep" -> "log"]

Volatile ==
  /\ sensorQueue = <<>> /\ rtcQueue = <<>> /\ tramaQueue = <<>>
  /\ ledSemaphore = 0 /\ led = "LOW" /\ gives = 0 /\ unanswered = 0
  /\ pc = StartPc
  /\ dht = NoReading /\ receivedData = NoSample
  /\ sensorData = NoSample /\ sensorDataSet = FALSE
  /\ lastTemperature = AbsentF /\ lastHumidity = AbsentF
  /\ trama = ""
  /\ shown = -1 /\ dhtErrors = 0
  /\ cycles = 0
  /\ fbSamples = <<>>
  /\ isr = NoIsr

Init ==
  /\ power = "boot"
  /\ contador = 0 /\ wakeCounter = 0 /\ edges = 0
  /\ Volatile


(* ------------------------------------------------------------------ *)
(* FreeRTOS primitives                                                *)
(* ------------------------------------------------------------------ *)
\* variant: a send that does not wait for room
CanSend_always(q, length) == TRUE
\* xQueueSend(q, &item, portMAX_DELAY) returns once there is room
CanSend(q, length) == Len(q) < length
\* variant: a counting semaphore
SemaphoreGive_counting(s) == s + 1
\* xSemaphoreGive on a binary semaphore: a give on a given semaphore fails
SemaphoreGive(s) == IF s = 0 THEN 1 ELSE s
Running(t, at) == power = "running" /\ pc[t] = at
Goto(t, to) == pc' = [pc EXCEPT ![t] = to]
Inc(n, max) == IF n < max THEN n + 1 ELSE n

(* ------------------------------------------------------------------ *)
(* tareaDHT                                                           *)
(* ------------------------------------------------------------------ *)
\* temp = dht.readTemperature(); hum = dht.readHumidity()
tareaDHT_read(Readings, maxCycles) ==
  /\ Running("DHT", "read")
  /\ cycles < maxCycles
  /\ \E r \in Readings : dht' = r
  /\ cycles' = cycles + 1
  /\ Goto("DHT", "send")
  /\ UNCHANGED <<power, persistent, queues, alarm, receivedData,
                 tramaLocals, serial, edges, isr>>

\* variant: only the temperature is tested
DHTValid_tempOnly(r) == ~isnan(r.temp)
DHTValid(r) == ~isnan(r.temp) /\ ~isnan(r.hum)
DHTSample(r) == SensorData(r.temp, r.hum, Absent)

\* the if: xQueueSend(sensorQueue, &data, portMAX_DELAY), or the error line
tareaDHT_send ==
  /\ Running("DHT", "send")
  /\ IF DHTValid(dht)
     THEN /\ CanSend(sensorQueue, SensorQueueLength)
          /\ sensorQueue' = Append(sensorQueue, DHTSample(dht))
          /\ UNCHANGED dhtErrors
     ELSE /\ dhtErrors' = dhtErrors + 1
          /\ UNCHANGED sensorQueue
  /\ dht' = NoReading
  /\ Goto("DHT", "read")
  /\ UNCHANGED <<power, persistent, rtcQueue, tramaQueue, alarm, receivedData,
                 tramaLocals, shown, budget, edges, isr>>

(* ------------------------------------------------------------------ *)
(* tareaLDR                                                           *)
(* ------------------------------------------------------------------ *)
\* variant: the fields the task does not measure are left zero
LDRSample_zeroed(l) == SensorData(0, 0, l)
LDRSample(l) == SensorData(AbsentF, AbsentF, l)

\* lightValue = analogRead(LDRPIN); xQueueSend(sensorQueue, &data, portMAX_DELAY)
tareaLDR(Lights, maxCycles) ==
  /\ Running("LDR", "read")
  /\ cycles < maxCycles
  /\ CanSend(sensorQueue, SensorQueueLength)
  /\ \E l \in Lights : sensorQueue' = Append(sensorQueue, LDRSample(l))
  /\ cycles' = cycles + 1
  /\ UNCHANGED <<power, persistent, rtcQueue, tramaQueue, alarm, pc, producerLocals,
                 tramaLocals, serial, edges, isr>>

(* ------------------------------------------------------------------ *)
(* tareaRTC                                                           *)
(* ------------------------------------------------------------------ *)
\* now = rtc.now(); xQueueSend(rtcQueue, &rtcData, portMAX_DELAY)
tareaRTC(Times, maxCycles) ==
  /\ Running("RTC", "read")
  /\ cycles < maxCycles
  /\ CanSend(rtcQueue, RtcQueueLength)
  /\ \E r \in Times : rtcQueue' = Append(rtcQueue, r)
  /\ cycles' = cycles + 1
  /\ UNCHANGED <<power, persistent, sensorQueue, tramaQueue, alarm, pc, producerLocals,
                 tramaLocals, serial, edges, isr>>

(* ------------------------------------------------------------------ *)
(* tareaMostrar                                                       *)
(* ------------------------------------------------------------------ *)
\* variant: the temperature and humidity tests joined by "or"
AlarmCondition_or(d) ==
  (d.temperature > TempThreshold \/ d.humidity > HumThreshold) \/ d.light > LightThreshold

AlarmCondition(d) ==
  (d.temperature > TempThreshold /\ d.humidity > HumThreshold) \/ d.light > LightThreshold

\* xQueueReceive(sensorQueue, &receivedData, 100 ms): an item, or a timeout
\* when the queue stays empty; then the prints and the alarm logic
tareaMostrar_recvSensor ==
  /\ Running("Mostrar", "recvSensor")
  /\ IF sensorQueue # <<>>
     THEN /\ receivedData' = Head(sensorQueue)
          /\ sensorQueue' = Tail(sensorQueue)
          /\ IF AlarmCondition(receivedData')
             THEN /\ ledSemaphore' = SemaphoreGive(ledSemaphore)
                  /\ gives' = Inc(gives, MaxGives)
                  /\ unanswered' = unanswered + 1
             ELSE UNCHANGED <<ledSemaphore, gives, unanswered>>
     ELSE UNCHANGED <<receivedData, sensorQueue, ledSemaphore, gives, unanswered>>
  /\ Goto("Mostrar", "recvRTC")
  /\ UNCHANGED <<power, persistent, rtcQueue, tramaQueue, led, dht,
                 tramaLocals, serial, budget, edges, isr>>

\* variant: the receive waits without a timeout (portMAX_DELAY)
tareaMostrar_recvRTC_waits ==
  /\ Running("Mostrar", "recvRTC")
  /\ rtcQueue # <<>>
  /\ rtcQueue' = Tail(rtcQueue)
  /\ Goto("Mostrar", "recvSensor")
  /\ UNCHANGED <<power, persistent, sensorQueue, tramaQueue, alarm, producerLocals,
                 tramaLocals, serial, budget, edges, isr>>

\* xQueueReceive(rtcQueue, &rtcData, 100 ms) and the date line
tareaMostrar_recvRTC ==
  /\ Running("Mostrar", "recvRTC")
  /\ IF rtcQueue # <<>>
     THEN rtcQueue' = Tail(rtcQueue)
     ELSE rtcQueue' = rtcQueue
  /\ Goto("Mostrar", "recvSensor")
  /\ UNCHANGED <<power, persistent, sensorQueue, tramaQueue, alarm, producerLocals,
                 tramaLocals, serial, budget, edges, isr>>

(* ------------------------------------------------------------------ *)
(* tareaAlarma                                                        *)
(* ------------------------------------------------------------------ *)
\* variant: the take returns after a timeout and its result is not tested
tareaAlarma_take_untested ==
  /\ Running("Alarma", "take")
  /\ ledSemaphore' = 0
  /\ gives' = 0
  /\ unanswered' = unanswered - 1
  /\ led' = "HIGH"
  /\ Goto("Alarma", "hold")
  /\ UNCHANGED <<power, persistent, queues, producerLocals,
                 tramaLocals, serial, budget, edges, isr>>

\* variant: the semaphore is taken and the LED is not written
tareaAlarma_take_noLed ==
  /\ Running("Alarma", "take")
  /\ ledSemaphore = 1
  /\ ledSemaphore' = 0
  /\ gives' = 0
  /\ unanswered' = unanswered
  /\ led' = led
  /\ Goto("Alarma", "hold")
  /\ UNCHANGED <<power, persistent, queues, producerLocals,
                 tramaLocals, serial, budget, edges, isr>>

\* xSemaphoreTake(ledSemaphore, portMAX_DELAY); digitalWrite(LED_PIN, HIGH)
tareaAlarma_take ==
  /\ Running("Alarma", "take")
  /\ ledSemaphore = 1
  /\ ledSemaphore' = 0
  /\ gives' = 0
  /\ unanswered' = unanswered - 1
  /\ led' = "HIGH"
  /\ Goto("Alarma", "hold")
  /\ UNCHANGED <<power, persistent, queues, producerLocals,
                 tramaLocals, serial, budget, edges, isr>>

\* variant: the task goes back to its take with the LED left as it is
tareaAlarma_off_noWrite ==
  /\ Running("Alarma", "hold")
  /\ led' = led
  /\ Goto("Alarma", "take")
  /\ UNCHANGED <<power, persistent, queues, ledSemaphore, gives, unanswered, producerLocals,
                 tramaLocals, serial, budget, edges, isr>>

\* vTaskDelay(500 ms) is over; digitalWrite(LED_PIN, LOW)
tareaAlarma_off ==
  /\ Running("Alarma", "hold")
  /\ led' = "LOW"
  /\ Goto("Alarma", "take")
  /\ UNCHANGED <<power, persistent, queues, ledSemaphore, gives, unanswered, producerLocals,
                 tramaLocals, serial, budget, edges, isr>>

(* ------------------------------------------------------------------ *)
(* tareaCrearTrama                                                    *)
(* ------------------------------------------------------------------ *)
\* what an int that was never written may hold
UninitInts == {Absent, 0, 777}

\* variant: every received field overwrites the retained value
Retain_always(last, field) == field
Retain(last, field) == IF field # AbsentF THEN field ELSE last

\* variant: the sample is read and left in the queue (xQueuePeek)
tareaCrearTrama_recvSensor_peek ==
  /\ Running("CrearTrama", "recvSensor")
  /\ IF sensorQueue # <<>>
     THEN /\ sensorData' = Head(sensorQueue)
          /\ sensorDataSet' = TRUE
          /\ lastTemperature' = Retain(lastTemperature, Head(sensorQueue).temperature)
          /\ lastHumidity' = Retain(lastHumidity, Head(sensorQueue).humidity)
          /\ fbSamples' = Append(fbSamples, Head(sensorQueue))
     ELSE UNCHANGED <<sensorData, sensorDataSet, lastTemperature,
                      lastHumidity, fbSamples>>
  /\ Goto("CrearTrama", "recvRTC")
  /\ UNCHANGED <<power, persistent, queues, alarm, producerLocals,
                 trama, serial, budget, edges, isr>>

\* xQueueReceive(sensorQueue, &sensorData, 1000 ms) and the two updates
tareaCrearTrama_recvSensor ==
  /\ Running("CrearTrama", "recvSensor")
  /\ IF sensorQueue # <<>>
     THEN /\ sensorData' = Head(sensorQueue)
          /\ sensorDataSet' = TRUE
          /\ sensorQueue' = Tail(sensorQueue)
          /\ lastTemperature' = Retain(lastTemperature, Head(sensorQueue).temperature)
          /\ lastHumidity' = Retain(lastHumidity, Head(sensorQueue).humidity)
          /\ fbSamples' = Append(fbSamples, Head(sensorQueue))
     ELSE UNCHANGED <<sensorData, sensorDataSet, sensorQueue, lastTemperature,
                      lastHumidity, fbSamples>>
  /\ Goto("CrearTrama", "recvRTC")
  /\ UNCHANGED <<power, persistent, rtcQueue, tramaQueue, alarm, producerLocals,
                 trama, serial, budget, edges, isr>>

\* the values sensorData.light may be read as: the one written by the last
\* receive, or anything when sensorData was never written
LightRead == IF sensorDataSet THEN {sensorData.light} ELSE UninitInts

\* variant: the frame is sent again when no time sample arrived
tareaCrearTrama_recvRTC_always ==
  /\ Running("CrearTrama", "recvRTC")
  /\ IF rtcQueue # <<>>
     THEN /\ \E l \in LightRead :
               trama' = FormatTrama(Head(rtcQueue), lastTemperature, lastHumidity, l)
          /\ rtcQueue' = Tail(rtcQueue)
     ELSE UNCHANGED <<trama, rtcQueue>>
  /\ Goto("CrearTrama", "send")
  /\ UNCHANGED <<power, persistent, sensorQueue, tramaQueue, alarm, producerLocals,
                 sensorData, sensorDataSet, lastTemperature,
                 lastHumidity, fbSamples, serial, budget, edges, isr>>

\* xQueueReceive(rtcQueue, &rtcData, 1000 ms); snprintf(trama, ...)
tareaCrearTrama_recvRTC ==
  /\ Running("CrearTrama", "recvRTC")
  /\ IF rtcQueue # <<>>
     THEN /\ \E l \in LightRead :
               trama' = FormatTrama(Head(rtcQueue), lastTemperature, lastHumidity, l)
          /\ rtcQueue' = Tail(rtcQueue)
          /\ Goto("CrearTrama", "send")
     ELSE /\ UNCHANGED <<trama, rtcQueue>>
          /\ Goto("CrearTrama", "recvSensor")
  /\ UNCHANGED <<power, persistent, sensorQueue, tramaQueue, alarm, producerLocals,
                 sensorData, sensorDataSet, lastTemperature,
                 lastHumidity, fbSamples, serial, budget, edges, isr>>

\* xQueueSend(tramaQueue, &trama, portMAX_DELAY); vTaskDelay(5000 ms)
tareaCrearTrama_send ==
  /\ Running("CrearTrama", "send")
  /\ CanSend(tramaQueue, TramaQueueLength)
  /\ tramaQueue' = Append(tramaQueue, trama)
  /\ Goto("CrearTrama", "recvSensor")
  /\ UNCHANGED <<power, persistent, sensorQueue, rtcQueue, alarm, producerLocals,
                 tramaLocals, serial, budget, edges, isr>>

(* ------------------------------------------------------------------ *)
(* tareaMostrarTrama                                                  *)
(* ------------------------------------------------------------------ *)
\* xQueueReceive(tramaQueue, &trama, portMAX_DELAY); Serial.println
tareaMostrarTrama ==
  /\ Running("MostrarTrama", "recv")
  /\ tramaQueue # <<>>
  /\ tramaQueue' = Tail(tramaQueue)
  /\ UNCHANGED <<power, persistent, sensorQueue, rtcQueue, alarm, pc, producerLocals,
                 tramaLocals, serial, budget, edges, isr>>

(* ------------------------------------------------------------------ *)
(* buttonISR and tareaMostrarContador                                 *)
(* ------------------------------------------------------------------ *)
Levels == {"LOW", "HIGH"}
\* variant: "si se presiona cualquiera", either button
ButtonCondition_or(b1, b2) == b1 = "LOW" \/ b2 = "LOW"
ButtonCondition(b1, b2) == b1 = "LOW" /\ b2 = "LOW"

\* variant: a counted press also raises the alarm
buttonISR_givesAlarm(Buttons, maxPresses) ==
  /\ power = "running"
  /\ contador < maxPresses
  /\ \E b \in Buttons :
       /\ contador' = IF ButtonCondition(b[1], b[2]) THEN contador + 1 ELSE contador
       /\ edges' = IF b[1] = "LOW" /\ b[2] = "LOW" THEN edges + 1 ELSE edges
       /\ ledSemaphore' = IF ButtonCondition(b[1], b[2]) THEN 1 ELSE ledSemaphore
  /\ UNCHANGED <<power, wakeCounter, queues, led, gives, unanswered, pc, producerLocals,
                 tramaLocals, serial, budget, isr>>

\* a falling edge on either button; b is what the two digitalRead return
buttonISR(Buttons, maxPresses) ==
  /\ power = "running"
  /\ contador < maxPresses
  /\ \E b \in Buttons :
       /\ contador' = IF ButtonCondition(b[1], b[2]) THEN contador + 1 ELSE contador
       /\ edges' = IF b[1] = "LOW" /\ b[2] = "LOW" THEN edges + 1 ELSE edges
  /\ UNCHANGED <<power, wakeCounter, queues, alarm, pc, producerLocals,
                 tramaLocals, serial, budget, isr>>

(* ------------------------------------------------------------------ *)
(* buttonISR, instruction by instruction                              *)
(* ------------------------------------------------------------------ *)
\* variant: a call of the handler for one line may begin while the call for
\* the other line is in flight
IsrSerial_nested == TRUE
\* both lines are attached from setup(), so both are served by the GPIO
\* interrupt of one core, one call after the other
IsrSerial == \A l \in Lines : isr[l] = -1

\* the handler is entered for a line, tests the two buttons and, if both are
\* LOW, loads contador: the first half of contador++
buttonISR_load(Buttons, maxPresses) ==
  /\ power = "running"
  /\ contador < maxPresses
  /\ IsrSerial
  /\ \E l \in Lines, b \in Buttons :
       isr' = IF ButtonCondition(b[1], b[2]) THEN [isr EXCEPT ![l] = contador] ELSE isr
  /\ UNCHANGED <<power, persistent, queues, alarm, pc, producerLocals,
                 tramaLocals, serial, budget, edges>>

\* the second half of contador++: the loaded value plus one is stored, and the
\* handler returns
buttonISR_store ==
  /\ power = "running"
  /\ \E l \in Lines :
       /\ isr[l] # -1
       /\ contador' = isr[l] + 1
       /\ isr' = [isr EXCEPT ![l] = -1]
  /\ edges' = edges + 1
  /\ UNCHANGED <<power, wakeCounter, queues, alarm, pc, producerLocals,
                 tramaLocals, serial, budget>>

\* Serial.println(contador); vTaskDelay(1000 ms)
tareaMostrarContador ==
  /\ Running("MostrarContador", "print")
  /\ shown' = contador
  /\ UNCHANGED <<power, persistent, queues, alarm, pc, producerLocals,
                 tramaLocals, dhtErrors, budget, edges, isr>>

(* ------------------------------------------------------------------ *)
(* GestionSleep, enterDeepSleep, wake and setup                       *)
(* ------------------------------------------------------------------ *)
\* variant: wakeCounter in main memory
RtcDataAttr_contadorOnly == {"contador"}
\* the variables placed in RTC memory
RtcDataAttr == {"contador", "wakeCounter"}
\* variant: main memory kept powered during the sleep
Retained_all(name, value, initial) == value
\* what deep sleep leaves of a statically allocated variable
Retained(name, value, initial) == IF name \in RtcDataAttr THEN value ELSE initial

\* variant: the message is printed every 10 s and the sleep is never called
GestionSleep_log_repeats ==
  /\ Running("GestionSleep", "log")
  /\ Goto("GestionSleep", "log")
  /\ UNCHANGED <<power, persistent, queues, alarm, producerLocals,
                 tramaLocals, serial, budget, edges, isr>>

\* Serial.println("Sistema en ejecucion..."); vTaskDelay(10000 ms)
GestionSleep_log ==
  /\ Running("GestionSleep", "log")
  /\ Goto("GestionSleep", "delay")
  /\ UNCHANGED <<power, persistent, queues, alarm, producerLocals,
                 tramaLocals, serial, budget, edges, isr>>

\* esp_deep_sleep_start(): every task stops; main memory is powered down and
\* is loaded from the image again at the next boot, RTC memory is kept
enterDeepSleep ==
  /\ Running("GestionSleep", "delay")
  /\ power' = "sleeping"
  /\ contador' = Retained("contador", contador, 0)
  /\ wakeCounter' = Retained("wakeCounter", wakeCounter, 0)
  /\ lastTemperature' = Retained("lastTemperature", lastTemperature, AbsentF)
  /\ lastHumidity' = Retained("lastHumidity", lastHumidity, AbsentF)
  /\ sensorQueue' = <<>> /\ rtcQueue' = <<>> /\ tramaQueue' = <<>>
  /\ ledSemaphore' = 0 /\ led' = "LOW" /\ gives' = 0 /\ unanswered' = 0
  /\ pc' = StartPc
  /\ dht' = NoReading /\ receivedData' = NoSample
  /\ sensorData' = NoSample /\ sensorDataSet' = FALSE
  /\ trama' = ""
  /\ shown' = -1 /\ dhtErrors' = 0
  /\ cycles' = 0
  /\ fbSamples' = <<>>
  /\ isr' = NoIsr
  /\ UNCHANGED edges

\* the 30 s wake timer fires and the chip boots
Wake(maxWakes) ==
  /\ power = "sleeping"
  /\ wakeCounter < maxWakes
  /\ power' = "boot"
  /\ UNCHANGED <<persistent, queues, alarm, pc, producerLocals, tramaLocals,
                 serial, budget, edges, isr>>

\* variant: the restart is counted before the RTC is looked for
setup_countsFirst(RtcBegin) ==
  /\ power = "boot"
  /\ wakeCounter' = wakeCounter + 1
  /\ \E found \in RtcBegin :
       IF ~found
       THEN /\ power' = "halted"
            /\ UNCHANGED <<queues, ledSemaphore, pc>>
       ELSE /\ power' = "running"
            /\ sensorQueue' = <<>>
            /\ rtcQueue' = <<>>
            /\ tramaQueue' = <<>>
            /\ ledSemaphore' = 0
            /\ pc' = StartPc
  /\ UNCHANGED <<contador, led, gives, unanswered, producerLocals, tramaLocals,
                 serial, budget, edges, isr>>

setup(RtcBegin) ==
  /\ power = "boot"
  /\ \E found \in RtcBegin :
       IF ~found
       THEN /\ power' = "halted"
            /\ UNCHANGED <<wakeCounter, queues, ledSemaphore, pc>>
       ELSE /\ power' = "running"
            /\ sensorQueue' = <<>>
            /\ rtcQueue' = <<>>
            /\ tramaQueue' = <<>>
            /\ ledSemaphore' = 0
            /\ pc' = StartPc
            /\ wakeCounter' = wakeCounter + 1
  /\ UNCHANGED <<contador, led, gives, unanswered, producerLocals, tramaLocals,
                 serial, budget, edges, isr>>

(* ------------------------------------------------------------------ *)
(* Environments and specifications                                    *)
(* ------------------------------------------------------------------ *)
T1 == RTCData(12, 0, 0, 1, 1, 2024)
T2 == RTCData(7, 5, 3, 9, 11, 2025)
Reading(t, h) == [temp |-> t, hum |-> h]

\* the first pass after a cold start, or a later one; an environment gives
\* the cycles of each producer for the one and for the other
Pass == IF wakeCounter <= 1 THEN 1 ELSE 2

\* the steps of the tasks, of the timer and of the boot
TaskSteps(e) ==
  \/ tareaDHT_read(e.dht, e.dhtCycles[Pass])
  \/ tareaDHT_send
  \/ tareaLDR(e.ldr, e.ldrCycles[Pass])
  \/ tareaRTC(e.rtc, e.rtcCycles[Pass])
  \/ tareaMostrar_recvSensor
  \/ tareaMostrar_recvRTC
  \/ tareaAlarma_take
  \/ tareaAlarma_off
  \/ tareaCrearTrama_recvSensor
  \/ tareaCrearTrama_recvRTC
  \/ tareaCrearTrama_send
  \/ tareaMostrarTrama
  \/ tareaMostrarContador
  \/ GestionSleep_log
  \/ enterDeepSleep
  \/ Wake(e.wakes)
  \/ setup(e.rtcBegin)

\* the tasks and the handler, a call of the handler taken as one step
NextIn(e) ==
  \/ TaskSteps(e)
  \/ buttonISR(e.buttons, e.presses)

\* the tasks and the handler, a call of the handler taken instruction by
\* instruction
NextSplit(e) ==
  \/ TaskSteps(e)
  \/ buttonISR_load(e.buttons, e.presses)
  \/ buttonISR_store

\* the pipeline: every kind of reading, the buttons never both pressed
EnvPipeline ==
  [dht |-> {Reading(NaN, NaN), Reading(NaN, 3000), Reading(2000, NaN),
            Reading(2000, 3000), Reading(2500, 7500)},
   ldr |-> {123, 600},
   rtc |-> {T1},
   buttons |-> {<<"LOW", "HIGH">>, <<"HIGH", "LOW">>},
   presses |-> MaxPresses,
   dhtCycles |-> <<MaxCycles, MaxCycles>>,
   ldrCycles |-> <<MaxCycles, MaxCycles>>,
   rtcCycles |-> <<MaxCycles, MaxCycles>>,
   wakes |-> MaxWakes,
   rtcBegin |-> {TRUE, FALSE}]

Next == NextIn(EnvPipeline)

Spec == Init /\ [][Next]_vars

\* the alarm logic: readings on both sides of every threshold, one or two samples
EnvAlarm ==
  [dht |-> {Reading(2500, 7500), Reading(2500, 3000), Reading(2000, 7500),
            Reading(2400, 7000)},
   ldr |-> {400, 500, 600},
   rtc |-> {T1},
   buttons |-> {<<"LOW", "HIGH">>, <<"HIGH", "LOW">>},
   presses |-> MaxPresses,
   dhtCycles |-> <<AlarmCycles, AlarmCycles>>,
   ldrCycles |-> <<AlarmCycles, AlarmCycles>>,
   rtcCycles |-> <<AlarmCycles, AlarmCycles>>,
   wakes |-> MaxWakes,
   rtcBegin |-> {TRUE, FALSE}]

NextAlarm == NextIn(EnvAlarm)

SpecAlarm == Init /\ [][NextAlarm]_vars

\* the alarm logic with the scheduler's guarantee for tareaAlarma, the task of
\* the highest priority: it runs when its xSemaphoreTake can return and when
\* its vTaskDelay(500 ms) is over
SpecAlarmLive ==
  SpecAlarm /\ WF_vars(tareaAlarma_take) /\ WF_vars(tareaAlarma_off)

\* the buttons: every pair of levels the two digitalRead can return, a short
\* pipeline that raises the alarm and retains a temperature in every pass
EnvPress ==
  [dht |-> {Reading(2500, 7500)},
   ldr |-> {600},
   rtc |-> {T1},
   buttons |-> Levels \X Levels,
   presses |-> MaxPresses,
   dhtCycles |-> <<PressCycles, PressCycles>>,
   ldrCycles |-> <<PressCycles, PressCycles>>,
   rtcCycles |-> <<PressCycles, PressCycles>>,
   wakes |-> MaxWakes,
   rtcBegin |-> {TRUE, FALSE}]

NextPress == NextIn(EnvPress)

SpecPress == Init /\ [][NextPress]_vars

\* the queues filled up.  The first pass fills sensorQueue: tareaDHT reads
\* in the first two cycles of the pass and tareaLDR runs on while the
\* consumers are slow; the pass after it fills rtcQueue and tramaQueue the
\* same way, with tareaRTC alone
EnvFill ==
  [dht |-> {Reading(2500, 7500)},
   ldr |-> {123},
   rtc |-> {T1},
   buttons |-> {<<"HIGH", "HIGH">>},
   presses |-> 1,
   dhtCycles |-> <<2, 0>>,
   ldrCycles |-> <<FillCycles, 0>>,
   rtcCycles |-> <<0, FillClockCycles>>,
   wakes |-> 2,
   rtcBegin |-> {TRUE}]

NextFill == NextIn(EnvFill)

SpecFill == Init /\ [][NextFill]_vars

\* the same with what scheduler, timer and boot guarantee: no task spins, so
\* the GestionSleep task gets the processor when its vTaskDelay(10000 ms) is
\* over; the wake timer fires; the chip boots into setup()
SpecFillLive ==
  /\ SpecFill
  /\ WF_vars(GestionSleep_log) /\ WF_vars(enterDeepSleep)
  /\ WF_vars(Wake(EnvFill.wakes)) /\ WF_vars(setup(EnvFill.rtcBegin))

\* the handler against its reader: calls of the handler from both lines, taken
\* instruction by instruction, while tareaMostrarContador prints
EnvRace ==
  [dht |-> {Reading(2500, 7500)},
   ldr |-> {600},
   rtc |-> {T1},
   buttons |-> Levels \X Levels,
   presses |-> RacePresses,
   dhtCycles |-> <<PressCycles, PressCycles>>,
   ldrCycles |-> <<PressCycles, PressCycles>>,
   rtcCycles |-> <<PressCycles, PressCycles>>,
   wakes |-> MaxWakes,
   rtcBegin |-> {TRUE, FALSE}]

NextRace == NextSplit(EnvRace)

SpecRace == Init /\ [][NextRace]_vars

\* the ends of the ranges of the sensors: a DHT11 gives 0 to 50 degrees and
\* 20 to 90 percent, analogRead() gives 0 to 4095
EnvChannels ==
  [dht |-> {Reading(NaN, NaN), Reading(0, 2000), Reading(5000, 9000)},
   ldr |-> {0, 4095},
   rtc |-> {T1},
   buttons |-> {<<"LOW", "HIGH">>},
   presses |-> 1,
   dhtCycles |-> <<ChannelCycles, ChannelCycles>>,
   ldrCycles |-> <<ChannelCycles, ChannelCycles>>,
   rtcCycles |-> <<ChannelCycles, ChannelCycles>>,
   wakes |-> 2,
   rtcBegin |-> {TRUE, FALSE}]

NextChannels == NextIn(EnvChannels)

SpecChannels == Init /\ [][NextChannels]_vars

\* every queue full with its senders waiting: sensorQueue in the pass after a
\* cold start, rtcQueue and tramaQueue together in the pass after it
EnvBlock ==
  [dht |-> {Reading(2500, 7500)},
   ldr |-> {123},
   rtc |-> {T1},
   buttons |-> {<<"HIGH", "HIGH">>},
   presses |-> 1,
   dhtCycles |-> <<2, 0>>,
   ldrCycles |-> <<BlockCycles, 0>>,
   rtcCycles |-> <<0, BlockClockCycles>>,
   wakes |-> 2,
   rtcBegin |-> {TRUE}]

NextBlock == NextIn(EnvBlock)

SpecBlock == Init /\ [][NextBlock]_vars

\* the same with what the scheduler guarantees to the two tasks that empty
\* the queues: tareaMostrar waits 100 ms at most and tareaMostrarTrama waits
\* for a frame only, so each gets the processor again and again; nothing is
\* assumed of the other tasks nor of the end of the pass
SpecBlockLive ==
  /\ SpecBlock
  /\ WF_vars(tareaMostrar_recvSensor) /\ WF_vars(tareaMostrar_recvRTC)
  /\ WF_vars(tareaMostrarTrama)

(* ------------------------------------------------------------------ *)
(* Steps of the tasks, as seen from outside                           *)
(* ------------------------------------------------------------------ *)
StepOf(t, from, to) ==
  power = "running" /\ power' = "running" /\ pc[t] = from /\ pc'[t] = to
MostrarSensorStep == StepOf("Mostrar", "recvSensor", "recvRTC")
MostrarRtcStep == StepOf("Mostrar", "recvRTC", "recvSensor")

(* ------------------------------------------------------------------ *)
(* C1                                                                 *)
(* ------------------------------------------------------------------ *)
\* the alarm predicate as the specification states it, in degrees and percent
Qualifies(d) ==
  (d.temperature > 24 * 100 /\ d.humidity > 70 * 100) \/ d.light > LightThreshold
LightOnly(l) == [temperature |-> -100, humidity |-> -100, light |-> l]

\* C1: in every iteration of tareaMostrar the semaphore is given if and only
\* if the sensor receive of that iteration returned a sample and the sample
\* has (temperature > 24 and humidity > 70) or light > threshold; a receive
\* that timed out gives nothing, and neither does the RTC half of the
\* iteration.  With the threshold 500 a light-only sample of 600 gives the
\* semaphore and a light-only sample of 400 does not.
C1_AlarmIffQualifying ==
  [][ /\ MostrarSensorStep =>
           IF sensorQueue # <<>> /\ Qualifies(Head(sensorQueue))
           THEN ledSemaphore' = 1 /\ gives' >= 1 /\ gives' >= gives
           ELSE ledSemaphore' = ledSemaphore /\ gives' = gives
      /\ MostrarRtcStep => (ledSemaphore' = ledSemaphore /\ gives' = gives)
      /\ (MostrarSensorStep /\ sensorQueue # <<>> /\ LightThreshold = 500) =>
           /\ Head(sensorQueue) = LightOnly(600) => ledSemaphore' = 1
           /\ Head(sensorQueue) = LightOnly(400) =>
                 (ledSemaphore' = ledSemaphore /\ gives' = gives)
    ]_vars

\* tareaMostrar has just received the light-only sample 600 and given the semaphore
C1_Witness ==
  /\ power = "running"
  /\ pc["Mostrar"] = "recvRTC"
  /\ receivedData = LightOnly(600)
  /\ ledSemaphore = 1
  /\ gives = 1

(* ------------------------------------------------------------------ *)
(* C2                                                                 *)
(* ------------------------------------------------------------------ *)
AlarmaTakeStep == StepOf("Alarma", "take", "hold")

\* C2: tareaMostrar gives the semaphore once for every qualifying sample it
\* receives, and the semaphore saturates: it is 0 or 1, it is 1 exactly when
\* at least one give was made since the last take, and one take of
\* tareaAlarma consumes all of them and turns the LED on once, so k gives
\* made before the take cause one activation; the LED is turned on by a take
\* and by nothing else.
C2_SignalSaturates ==
  /\ [](ledSemaphore \in {0, 1} /\ (ledSemaphore = 1 <=> gives >= 1))
  /\ [][ /\ (MostrarSensorStep /\ sensorQueue # <<>> /\ Qualifies(Head(sensorQueue))) =>
              (gives' = IF gives < MaxGives THEN gives + 1 ELSE gives)
         /\ AlarmaTakeStep =>
              (ledSemaphore = 1 /\ ledSemaphore' = 0 /\ gives' = 0 /\ led' = "HIGH")
         /\ (led = "LOW" /\ led' = "HIGH") => AlarmaTakeStep
       ]_vars

\* two gives were made while tareaAlarma holds the LED on: one is pending
C2_Witness ==
  /\ power = "running"
  /\ pc["Alarma"] = "hold"
  /\ led = "HIGH"
  /\ gives = 2
  /\ ledSemaphore = 1

(* ------------------------------------------------------------------ *)
(* C3                                                                 *)
(* ------------------------------------------------------------------ *)
\* C3: every qualifying sample sent to sensorQueue leads to a give of the
\* semaphore for that sample (and then to the LED on and off).  A give for a
\* sample is made only by the task that received it, so the claim needs: when
\* a qualifying sample leaves sensorQueue while the system keeps running, the
\* semaphore is given in that step.
C3_QualifyingSampleRaises ==
  [][ ( /\ power = "running" /\ power' = "running"
        /\ sensorQueue # <<>>
        /\ sensorQueue' = Tail(sensorQueue)
        /\ Qualifies(Head(sensorQueue)) )
      => ledSemaphore' = 1 ]_vars

(* ------------------------------------------------------------------ *)
(* C4                                                                 *)
(* ------------------------------------------------------------------ *)
CrearTramaBuildStep == StepOf("CrearTrama", "recvRTC", "send")
CrearTramaSendStep == StepOf("CrearTrama", "send", "recvSensor")

\* the values a field of a frame can show in the environments below
FrameTimes == {T1, T2}
FrameFloats == {-100, 2000, 2400, 2500, 3000, 7000, 7500}
FrameLights == {-1, 0, 777, 123, 400, 500, 600}
ShowsTemperature(f, t) ==
  \E r \in FrameTimes, h \in FrameFloats, l \in FrameLights : f = FormatTrama(r, t, h, l)
ShowsHumidity(f, h) ==
  \E r \in FrameTimes, t \in FrameFloats, l \in FrameLights : f = FormatTrama(r, t, h, l)

SeenTemperature(samples) == \E i \in 1..Len(samples) : samples[i].temperature # -100
SeenHumidity(samples) == \E i \in 1..Len(samples) : samples[i].humidity # -100

\* C4: a frame tareaCrearTrama builds shows the temperature -1 only if no
\* sample with a temperature has been received by tareaCrearTrama since the
\* boot, and the humidity -1 only if no sample with a humidity has; the frame
\* it sends is the frame it built.
C4_UnknownOnlyBeforeFirstSample ==
  [][ /\ CrearTramaBuildStep =>
           /\ ShowsTemperature(trama', -100) => ~SeenTemperature(fbSamples)
           /\ ShowsHumidity(trama', -100) => ~SeenHumidity(fbSamples)
      /\ CrearTramaSendStep => tramaQueue' = Append(tramaQueue, trama)
    ]_vars

\* a frame with both fields unknown, built after a light-only sample was received
C4_Witness ==
  /\ power = "running"
  /\ pc["CrearTrama"] = "send"
  /\ fbSamples # <<>>
  /\ ShowsTemperature(trama, -100)
  /\ ShowsHumidity(trama, -100)

(* ------------------------------------------------------------------ *)
(* C7                                                                 *)
(* ------------------------------------------------------------------ *)
RECURSIVE LastTemperature(_)
LastTemperature(samples) ==
  IF samples = <<>> THEN -100
  ELSE IF samples[Len(samples)].temperature # -100
       THEN samples[Len(samples)].temperature
       ELSE LastTemperature(SubSeq(samples, 1, Len(samples) - 1))
RECURSIVE LastHumidity(_)
LastHumidity(samples) ==
  IF samples = <<>> THEN -100
  ELSE IF samples[Len(samples)].humidity # -100
       THEN samples[Len(samples)].humidity
       ELSE LastHumidity(SubSeq(samples, 1, Len(samples) - 1))

\* C7: the frame built in a cycle carries the time sample received in that
\* cycle, the temperature and the humidity of the last sample received by
\* tareaCrearTrama that had them, and the light field of the last sample it
\* received (whatever it holds when none was received yet); the frame is sent
\* as built.  After (20.0, 30.0), then light 123, then 01/01/2024 12:00:00 the
\* frame is "01/01/2024 12:00:00, Temp: 20.00 C, Hum: 30.00%, Luz: 123".
C7_FrameContents ==
  [][ /\ CrearTramaBuildStep =>
           /\ rtcQueue # <<>>
           /\ \E l \in (IF fbSamples # <<>>
                        THEN {fbSamples[Len(fbSamples)].light}
                        ELSE FrameLights) :
                trama' = FormatTrama(Head(rtcQueue), LastTemperature(fbSamples),
                                     LastHumidity(fbSamples), l)
           /\ ( /\ fbSamples = << [temperature |-> 2000, humidity |-> 3000, light |-> -1],
                                  [temperature |-> -100, humidity |-> -100, light |-> 123] >>
                /\ Head(rtcQueue) = [hour |-> 12, minute |-> 0, second |-> 0,
                                     day |-> 1, month |-> 1, year |-> 2024] )
              => trama' = "01/01/2024 12:00:00, Temp: 20.00 C, Hum: 30.00%, Luz: 123"
      /\ CrearTramaSendStep => tramaQueue' = Append(tramaQueue, trama)
    ]_vars

\* the frame of the example is in tramaQueue
C7_Witness ==
  /\ power = "running"
  /\ tramaQueue # <<>>
  /\ tramaQueue[Len(tramaQueue)] = "01/01/2024 12:00:00, Temp: 20.00 C, Hum: 30.00%, Luz: 123"

(* ------------------------------------------------------------------ *)
(* C10                                                                *)
(* ------------------------------------------------------------------ *)
DHTSendStep == StepOf("DHT", "send", "read")

\* C10: when the temperature or the humidity read is not a number, the cycle
\* of tareaDHT leaves sensorQueue as it is and prints one error line, and the
\* task is back at its read; when both are numbers the cycle appends exactly
\* one sample, with these two values and light -1, and prints no error.
C10_InvalidReadingSkipsCycle ==
  [][ DHTSendStep =>
        IF dht.temp = NaN \/ dht.hum = NaN
        THEN sensorQueue' = sensorQueue /\ dhtErrors' = dhtErrors + 1
        ELSE /\ sensorQueue' = Append(sensorQueue,
                  [temperature |-> dht.temp, humidity |-> dht.hum, light |-> -1])
             /\ dhtErrors' = dhtErrors
    ]_vars

\* two failed cycles in a row: nothing was queued and the task reads again
C10_Witness ==
  /\ power = "running"
  /\ dhtErrors = 2
  /\ cycles = 2
  /\ sensorQueue = <<>>
  /\ pc["DHT"] = "read"


(* ------------------------------------------------------------------ *)
(* Power transitions, as seen from outside                            *)
(* ------------------------------------------------------------------ *)
SleepEntryStep == power = "running" /\ power' = "sleeping"
WakeStep == power = "sleeping" /\ power' = "boot"
ReinitStep == power = "boot" /\ power' = "running"
HaltStep == power = "boot" /\ power' = "halted"

(* ------------------------------------------------------------------ *)
(* C5                                                                 *)
(* ------------------------------------------------------------------ *)
\* C5: contador is 0 at cold start; it is the number of edge events that found
\* both buttons pressed, whatever else ran in between (an edge with both
\* buttons pressed adds exactly one, any other step adds nothing); and no
\* step of a task, of the handler or of the power cycle makes it smaller.
C5_PressCountCountsEdges ==
  /\ []((power = "boot" /\ wakeCounter = 0) => contador = 0)
  /\ [](contador = edges)
  /\ [][ /\ (edges' = edges + 1) => (contador' = contador + 1)
         /\ (edges' = edges) => (contador' = contador)
         /\ contador' >= contador ]_vars

\* two qualifying edges were counted and the count is there in the second pass
C5_Witness ==
  power = "running" /\ wakeCounter = 2 /\ edges = 2 /\ contador = 2

(* ------------------------------------------------------------------ *)
(* C6                                                                 *)
(* ------------------------------------------------------------------ *)
\* C6: wakeCounter changes in one place only, the successful setup(), which
\* adds exactly one; sleep entry, wake and a setup() that halts leave it as
\* it is, so a full sleep, wake and reinitialization adds exactly one; and
\* none of the steps of the power cycle changes contador.
C6_WakeCountPerCycle ==
  [][ /\ ReinitStep => (wakeCounter' = wakeCounter + 1 /\ contador' = contador)
      /\ (SleepEntryStep \/ WakeStep \/ HaltStep) =>
           (wakeCounter' = wakeCounter /\ contador' = contador)
      /\ (power' = power) => (wakeCounter' = wakeCounter) ]_vars

\* just after the second setup(): one full cycle done, with presses counted
\* before the sleep
C6_Witness ==
  /\ power = "running" /\ wakeCounter = 2 /\ contador >= 1
  /\ pc = StartPc /\ shown = -1 /\ cycles = 0

(* ------------------------------------------------------------------ *)
(* C9                                                                 *)
(* ------------------------------------------------------------------ *)
\* C9: while the chip sleeps and when it boots again nothing of the previous
\* pass is left but contador and wakeCounter; the setup() after a wake starts
\* the pass with the three queues empty, the semaphore not given, the LED off
\* and tareaAlarma waiting, and lastTemperature and lastHumidity at -1; the
\* sleep entry hands contador and wakeCounter over unchanged.
C9_VolatileStateRecreated ==
  /\ []((power \in {"sleeping", "boot"}) => Volatile)
  /\ [][ /\ ReinitStep =>
              /\ sensorQueue' = <<>> /\ rtcQueue' = <<>> /\ tramaQueue' = <<>>
              /\ ledSemaphore' = 0
              /\ led' = "LOW" /\ pc'["Alarma"] = "take"
              /\ lastTemperature' = -100 /\ lastHumidity' = -100
              /\ Volatile'
         /\ SleepEntryStep =>
              (contador' = contador /\ wakeCounter' = wakeCounter) ]_vars

\* the chip woke up with a count to carry over
C9_Witness ==
  power = "boot" /\ wakeCounter = 1 /\ contador = 2 /\ Volatile


(* ------------------------------------------------------------------ *)
(* C8                                                                 *)
(* ------------------------------------------------------------------ *)
\* q2 is q with one item put at its tail
Enqueued(q, q2) == Len(q2) = Len(q) + 1 /\ SubSeq(q2, 1, Len(q)) = q
\* q2 is q, q with an item put at its tail, or q with its head taken
QueueStep(q, q2) == q2 = q \/ Enqueued(q, q2) \/ (q # <<>> /\ q2 = Tail(q))
\* a task leaves a position while the chip keeps running
Leaves(t, at) == power = "running" /\ power' = "running" /\ pc[t] = at /\ pc'[t] # at
\* the loop body of tareaDHT, tareaLDR or tareaRTC starts
ProducerCycle == power = "running" /\ power' = "running" /\ cycles' = cycles + 1

\* C8: while the chip runs, the sample of a valid reading leaves tareaDHT only
\* into sensorQueue, and tareaDHT reads again only after that; a cycle of
\* tareaLDR or tareaRTC puts its sample at the tail of its queue; a frame
\* leaves tareaCrearTrama only into tramaQueue; every send happens with room
\* in the queue, and no step of a running chip does anything to a queue but
\* put one item at its tail or take its head; so the queues never hold more
\* than 10, 5 and 5 items.
C8_ProducersNeverDrop ==
  /\ [](Len(sensorQueue) <= 10 /\ Len(rtcQueue) <= 5 /\ Len(tramaQueue) <= 5)
  /\ [][ /\ (Leaves("DHT", "send") /\ dht.temp # NaN /\ dht.hum # NaN) =>
              /\ Len(sensorQueue) < 10
              /\ sensorQueue' = Append(sensorQueue,
                     [temperature |-> dht.temp, humidity |-> dht.hum, light |-> -1])
         /\ ProducerCycle =>
              \/ /\ pc["DHT"] = "read" /\ pc'["DHT"] = "send"
                 /\ queues' = queues
              \/ /\ Len(sensorQueue) < 10
                 /\ Enqueued(sensorQueue, sensorQueue')
                 /\ sensorQueue'[Len(sensorQueue')].temperature = -100
                 /\ sensorQueue'[Len(sensorQueue')].humidity = -100
                 /\ sensorQueue'[Len(sensorQueue')].light \in FrameLights
                 /\ rtcQueue' = rtcQueue /\ tramaQueue' = tramaQueue /\ pc' = pc
              \/ /\ Len(rtcQueue) < 5
                 /\ Enqueued(rtcQueue, rtcQueue')
                 /\ rtcQueue'[Len(rtcQueue')] \in FrameTimes
                 /\ sensorQueue' = sensorQueue /\ tramaQueue' = tramaQueue /\ pc' = pc
         /\ Leaves("CrearTrama", "send") =>
              /\ Len(tramaQueue) < 5
              /\ tramaQueue' = Append(tramaQueue, trama)
         /\ (power = "running" /\ power' = "running") =>
              /\ QueueStep(sensorQueue, sensorQueue')
              /\ QueueStep(rtcQueue, rtcQueue')
              /\ QueueStep(tramaQueue, tramaQueue') ]_vars

\* sensorQueue is full and tareaDHT waits in its send with a valid sample
C8_Witness ==
  /\ power = "running" /\ Len(sensorQueue) = 10
  /\ pc["DHT"] = "send" /\ dht.temp # NaN /\ dht.hum # NaN

\* rtcQueue is full with tareaRTC due, tramaQueue is full with a frame waiting
C8_ClockQueueFull == power = "running" /\ Len(rtcQueue) = 5 /\ cycles = 5
C8_FrameQueueFull ==
  power = "running" /\ Len(tramaQueue) = 5 /\ pc["CrearTrama"] = "send"

(* ------------------------------------------------------------------ *)
(* C11                                                                *)
(* ------------------------------------------------------------------ *)
\* C11: a setup() that does not find the RTC stops in its while (1): the
\* restart is not counted, no queue holds anything, the semaphore is not
\* given, the LED is off and no task has made a step, and nothing happens
\* any more, so the chip is never running or sleeping after it.  Nothing
\* else halts the chip: the halt is entered from setup() only, and a failed
\* DHT reading leaves every task running, tareaDHT back at its read.
C11_AbsentClockHalts ==
  /\ [](power = "halted" =>
          /\ sensorQueue = <<>> /\ rtcQueue = <<>> /\ tramaQueue = <<>>
          /\ ledSemaphore = 0 /\ led = "LOW"
          /\ pc = StartPc /\ cycles = 0 /\ shown = -1 /\ trama = "")
  /\ [][ /\ HaltStep => (wakeCounter' = wakeCounter /\ contador' = contador)
         /\ (power = "halted") => (power' = "halted")
         /\ (power' = "halted") => (power \in {"boot", "halted"})
         /\ (dhtErrors' = dhtErrors + 1) =>
              (power' = "running" /\ pc' = [pc EXCEPT !["DHT"] = "read"]) ]_vars

\* the chip woke up from a sleep and halted in setup(): one restart counted
C11_Witness == power = "halted" /\ wakeCounter = 1

(* ------------------------------------------------------------------ *)
(* C12                                                                *)
(* ------------------------------------------------------------------ *)
AlarmaOffStep == StepOf("Alarma", "hold", "take")
HoldEnds == pc["Alarma"] = "hold" /\ pc'["Alarma"] # "hold"

\* tareaAlarma is at its take or in its hold; its take needs the semaphore
\* given and takes it in the same step, turning the LED on; the end of the
\* hold turns the LED off and leaves the semaphore alone; the LED is on
\* exactly while the task is in its hold, and nothing else turns it on
AlarmaMachine ==
  /\ [](pc["Alarma"] \in {"take", "hold"})
  /\ [](led = "HIGH" <=> (power = "running" /\ pc["Alarma"] = "hold"))
  /\ [][ /\ AlarmaTakeStep =>
              (ledSemaphore = 1 /\ ledSemaphore' = 0 /\ led = "LOW" /\ led' = "HIGH")
         /\ AlarmaOffStep =>
              (led = "HIGH" /\ led' = "LOW" /\ ledSemaphore' = ledSemaphore)
         /\ (led' = "HIGH" /\ led = "LOW") => AlarmaTakeStep
         /\ (pc["Alarma"] = "take" /\ pc'["Alarma"] = "hold") => AlarmaTakeStep ]_vars

\* C12 as stated: tareaAlarma is that two-state machine, and every hold ends
\* with tareaAlarma itself turning the LED off and going back to its take.
C12_EveryHoldEndsByTheTask ==
  /\ AlarmaMachine
  /\ [][HoldEnds => AlarmaOffStep]_vars

\* C12, amended: tareaAlarma is that two-state machine; a hold ends with
\* tareaAlarma turning the LED off and going back to its take, or with the
\* deep sleep, which stops the task in its hold and powers the LED down; either
\* way an LED that is on is off again later.
C12_HoldEndsByTheTaskOrSleep ==
  /\ AlarmaMachine
  /\ [][HoldEnds => (AlarmaOffStep \/ (SleepEntryStep /\ led' = "LOW"))]_vars
  /\ (led = "HIGH") ~> (led = "LOW")

\* the LED is on and the sleep is due
C12_Witness ==
  power = "running" /\ led = "HIGH" /\ pc["Alarma"] = "hold"
  /\ pc["GestionSleep"] = "delay"

(* ------------------------------------------------------------------ *)
(* C13                                                                *)
(* ------------------------------------------------------------------ *)
\* the semaphore is given and tareaAlarma is at its xSemaphoreTake
Pending == power = "running" /\ ledSemaphore = 1 /\ pc["Alarma"] = "take"

\* a step of a task of priority 1 other than tareaMostrar, which gave the
\* semaphore: the tasks are not pinned to a core, so such a task may be
\* running on the other core
OtherTaskStep ==
  /\ power = "running"
  /\ \/ \E t \in Tasks \ {"Mostrar", "Alarma"} : pc'[t] # pc[t]
     \/ cycles' # cycles
     \/ Len(tramaQueue') < Len(tramaQueue)
     \/ shown' # shown
     \/ power' = "sleeping"

\* C13 as stated: with the semaphore given and tareaAlarma at its take, no
\* other task makes a step before tareaAlarma has taken it.
C13_NoStepBeforeTheTake ==
  [][Pending => ~OtherTaskStep]_vars

\* C13, amended: with the semaphore given and tareaAlarma at its take,
\* tareaAlarma takes it and turns the LED on, unless the chip goes to sleep
\* first; nothing but that take clears the semaphore while the chip runs.
C13_PendingSignalIsTaken ==
  /\ Pending ~> (led = "HIGH" \/ power # "running")
  /\ [][ (Pending /\ ledSemaphore' = 0 /\ power' = "running") =>
            (AlarmaTakeStep /\ led' = "HIGH") ]_vars

\* the semaphore is given, tareaAlarma is at its take and tareaDHT has read
\* its sensor in the meantime
C13_Witness == Pending /\ pc["DHT"] = "send" /\ sensorQueue = <<>>

(* ------------------------------------------------------------------ *)
(* C14                                                                *)
(* ------------------------------------------------------------------ *)
CrearTramaSensorStep == Leaves("CrearTrama", "recvSensor")
CrearTramaRtcStep == Leaves("CrearTrama", "recvRTC")

\* C14: a cycle of tareaCrearTrama is one sensor receive, then one RTC
\* receive, then a send if and only if the RTC receive returned an item, and
\* then the next cycle.  The sensor receive takes the head of sensorQueue or
\* nothing, the RTC receive the head of rtcQueue or nothing, the send puts one
\* frame into tramaQueue, and none of the three touches another queue; whether
\* the sensor receive returned an item has no part in it.
C14_OneFramePerTimeSample ==
  /\ [](power = "running" => pc["CrearTrama"] \in {"recvSensor", "recvRTC", "send"})
  /\ [][ /\ CrearTramaSensorStep =>
              /\ pc'["CrearTrama"] = "recvRTC"
              /\ sensorQueue' = IF sensorQueue # <<>> THEN Tail(sensorQueue) ELSE sensorQueue
              /\ rtcQueue' = rtcQueue /\ tramaQueue' = tramaQueue
         /\ CrearTramaRtcStep =>
              /\ pc'["CrearTrama"] = IF rtcQueue # <<>> THEN "send" ELSE "recvSensor"
              /\ rtcQueue' = IF rtcQueue # <<>> THEN Tail(rtcQueue) ELSE rtcQueue
              /\ sensorQueue' = sensorQueue /\ tramaQueue' = tramaQueue
         /\ Leaves("CrearTrama", "send") =>
              /\ pc'["CrearTrama"] = "recvSensor"
              /\ Len(tramaQueue') = Len(tramaQueue) + 1
              /\ sensorQueue' = sensorQueue /\ rtcQueue' = rtcQueue
         /\ (power = "running" /\ power' = "running"
               /\ Len(tramaQueue') > Len(tramaQueue)) => Leaves("CrearTrama", "send")
       ]_vars

\* a frame was sent and tareaCrearTrama has not received one sample yet
C14_Witness ==
  /\ power = "running" /\ tramaQueue # <<>> /\ fbSamples = <<>>
  /\ pc["CrearTrama"] = "recvSensor"

(* ------------------------------------------------------------------ *)
(* C15                                                                *)
(* ------------------------------------------------------------------ *)
\* C15: in a pass the GestionSleep task prints its message once and then
\* waits for the sleep: it never goes back from the wait to the message; the
\* sleep is entered from that wait only; while the chip sleeps nothing runs,
\* and the only way on is the wake; every pass reaches the sleep, whatever
\* the other tasks wait for, and with the RTC present every sleep but the
\* last the bound allows is followed by the next pass.
C15_EveryPassReachesSleep ==
  /\ [][ /\ (power = "running" /\ power' = "running" /\ pc["GestionSleep"] = "delay")
              => pc'["GestionSleep"] = "delay"
         /\ SleepEntryStep => pc["GestionSleep"] = "delay"
         /\ (power = "sleeping") => (WakeStep /\ pc' = pc /\ queues' = queues)
       ]_vars
  /\ (power = "running") ~> (power = "sleeping")
  /\ (power = "sleeping" /\ wakeCounter < EnvFill.wakes) ~> (power = "running")

\* the sleep is due while sensorQueue is full and tareaDHT waits in its send
C15_Witness ==
  /\ power = "running" /\ pc["GestionSleep"] = "delay"
  /\ Len(sensorQueue) = 10 /\ pc["DHT"] = "send"

(* ------------------------------------------------------------------ *)
(* C16                                                                *)
(* ------------------------------------------------------------------ *)
\* everything but contador and the count of qualifying edges
AllButContador ==
  <<power, wakeCounter, sensorQueue, rtcQueue, tramaQueue, ledSemaphore, led,
    gives, unanswered, pc, dht, receivedData, sensorData, sensorDataSet, lastTemperature,
    lastHumidity, trama, shown, dhtErrors, cycles, fbSamples, isr>>

C17_NoIncrementLost ==
  /\ [](contador = edges)
  /\ [][(contador' # contador) => (contador' = contador + 1)]_vars
  /\ [][(shown' # shown /\ shown' # -1) =>
          (shown' = contador /\ shown' >= shown)]_vars

\* a call from line 19 has loaded contador after an earlier call was counted
\* and its value printed
C17_Witness ==
  /\ power = "running" /\ isr[19] = 1
  /\ contador = 1 /\ edges = 1 /\ shown = 1



(* ------------------------------------------------------------------ *)
(* The channels of a queued sample                                    *)
(* ------------------------------------------------------------------ *)
\* a field is present when it is not the marker, the test of the consumers
TempHumChannel(d) == d.temperature # AbsentF /\ d.humidity # AbsentF /\ d.light = Absent
LightChannel(d) == d.temperature = AbsentF /\ d.humidity = AbsentF /\ d.light # Absent
\* exactly one channel is populated
OneChannel(d) == TempHumChannel(d) \/ LightChannel(d)

\* C18: every sample in sensorQueue has either temperature and humidity both
\* present and light -1, or light present and temperature and humidity both
\* -1; none has the three present or the three absent.
C18_OneChannelPerSample ==
  \A i \in 1..Len(sensorQueue) :
    /\ OneChannel(sensorQueue[i])
    /\ ~(sensorQueue[i].temperature # AbsentF /\ sensorQueue[i].humidity # AbsentF
           /\ sensorQueue[i].light # Absent)
    /\ ~(sensorQueue[i].temperature = AbsentF /\ sensorQueue[i].humidity = AbsentF
           /\ sensorQueue[i].light = Absent)

\* the queue holds a sample of 0 degrees and a sample of light 0
C18_Witness ==
  /\ \E i \in 1..Len(sensorQueue) : sensorQueue[i] = SensorData(0, 2000, Absent)
  /\ \E i \in 1..Len(sensorQueue) : sensorQueue[i] = SensorData(AbsentF, AbsentF, 0)



(* ------------------------------------------------------------------ *)
(* The two consumers of sensorQueue and rtcQueue                      *)
(* ------------------------------------------------------------------ *)
\* the head of q is taken while the chip keeps running
Taken(q, q2) == power = "running" /\ power' = "running" /\ q # <<>> /\ q2 = Tail(q)
\* what tareaMostrar keeps of a sample, and what tareaCrearTrama keeps
OfMostrar == <<receivedData, ledSemaphore, gives, unanswered, pc["Mostrar"]>>
OfCrearTrama ==
  <<sensorData, sensorDataSet, lastTemperature, lastHumidity, trama, fbSamples,
    pc["CrearTrama"]>>

\* C19: tareaMostrar and tareaCrearTrama receive from the same sensorQueue
\* and the same rtcQueue, and an item that leaves its queue goes to exactly
\* one of them.  A sample taken by tareaCrearTrama becomes its sensorData and
\* leaves receivedData, the semaphore and tareaMostrar as they are; a sample
\* taken by tareaMostrar becomes its receivedData and leaves the retained
\* values and tareaCrearTrama as they are; the same for a time sample; no step
\* is a receive of both, and nothing else takes an item out of either queue.
C19_CompetingConsumers ==
  [][    /\ Taken(sensorQueue, sensorQueue') =>
              \/ /\ MostrarSensorStep
                 /\ receivedData' = Head(sensorQueue)
                 /\ OfCrearTrama' = OfCrearTrama
              \/ /\ CrearTramaSensorStep
                 /\ sensorData' = Head(sensorQueue)
                 /\ fbSamples' = Append(fbSamples, Head(sensorQueue))
                 /\ OfMostrar' = OfMostrar
         /\ Taken(rtcQueue, rtcQueue') =>
              \/ MostrarRtcStep /\ OfCrearTrama' = OfCrearTrama
              \/ /\ CrearTramaRtcStep
                 /\ OfMostrar' = OfMostrar
         /\ ~(MostrarSensorStep /\ CrearTramaSensorStep)
         /\ ~(MostrarRtcStep /\ CrearTramaRtcStep)
         /\ (power = "running" /\ power' = "running" /\ receivedData' # receivedData) =>
              (MostrarSensorStep /\ Taken(sensorQueue, sensorQueue'))
         /\ ( /\ power = "running" /\ power' = "running"
              /\ <<sensorData, lastTemperature, lastHumidity, fbSamples>>' #
                   <<sensorData, lastTemperature, lastHumidity, fbSamples>> ) =>
              (CrearTramaSensorStep /\ Taken(sensorQueue, sensorQueue')) ]_vars

\* tareaCrearTrama took the light sample 4095 and no alarm was raised for it,
\* and tareaMostrar took the sample of 0 degrees, which the retained values
\* never saw
C19_Witness ==
  /\ power = "running"
  /\ fbSamples = <<SensorData(AbsentF, AbsentF, 4095)>>
  /\ gives = 0 /\ led = "LOW"
  /\ receivedData = SensorData(0, 2000, Absent)
  /\ lastTemperature = AbsentF



(* ------------------------------------------------------------------ *)
(* Full queues within a pass                                          *)
(* ------------------------------------------------------------------ *)
\* a queue is full while the chip runs: a task that sends to it waits
Full(q, length) == power = "running" /\ Len(q) = length
\* the queue has room, or the pass is over
Room(q, length) == ~Full(q, length)

\* C20: within a pass no sender waits forever: no queue stays full for good,
\* so a full sensorQueue and a full rtcQueue get room again, tareaMostrar
\* taking their heads also while
\* tareaCrearTrama waits at a full tramaQueue, and a full tramaQueue gets
\* room again by tareaMostrarTrama; tareaMostrar itself never waits for
\* good, so the tasks are never all blocked.
C20_NoSenderWaitsForever ==
  /\ []<>Room(sensorQueue, SensorQueueLength)
  /\ []<>Room(rtcQueue, RtcQueueLength)
  /\ []<>Room(tramaQueue, TramaQueueLength)
  /\ [](power = "running" =>
          ENABLED (tareaMostrar_recvSensor \/ tareaMostrar_recvRTC))
  /\ [][ (Full(rtcQueue, RtcQueueLength) /\ MostrarRtcStep) =>
           rtcQueue' = Tail(rtcQueue) ]_vars

\* rtcQueue is full with tareaRTC due while tareaCrearTrama waits with a frame
\* at a full tramaQueue
C20_Witness ==
  /\ power = "running"
  /\ Len(rtcQueue) = RtcQueueLength /\ cycles < BlockClockCycles
  /\ Len(tramaQueue) = TramaQueueLength /\ pc["CrearTrama"] = "send"

\* sensorQueue is full with tareaDHT waiting in its send
C20_SensorQueueFull ==
  /\ power = "running" /\ Len(sensorQueue) = SensorQueueLength
  /\ pc["DHT"] = "send"



(* ------------------------------------------------------------------ *)
(* No alarm without a qualifying sample                               *)
(* ------------------------------------------------------------------ *)
\* C21: a setup() that starts a pass leaves the semaphore empty and the LED
\* off, with nothing counted for the pass; the LED is turned on only when
\* tareaMostrar has received, in the same pass, a qualifying sample that no
\* turn-on has answered yet, and the semaphore is given only then; so in
\* every pass the turn-ons of the LED never exceed the qualifying samples
\* tareaMostrar received in it.
C21_NoSpuriousAlarm ==
  /\ [](unanswered >= 0)
  /\ []((power = "running" /\ ledSemaphore = 1) => unanswered >= 1)
  /\ [][ /\ ReinitStep =>
              (ledSemaphore' = 0 /\ led' = "LOW" /\ unanswered' = 0 /\ gives' = 0)
         /\ (led = "LOW" /\ led' = "HIGH") =>
              (unanswered >= 1 /\ unanswered' = unanswered - 1)
         /\ (unanswered' > unanswered) =>
              /\ MostrarSensorStep /\ sensorQueue # <<>>
              /\ Qualifies(Head(sensorQueue))
              /\ receivedData' = Head(sensorQueue)
              /\ unanswered' = unanswered + 1 ]_vars

\* in the pass after a sleep tareaMostrar received two qualifying samples and
\* the LED was turned on once
C21_Witness ==
  /\ power = "running" /\ wakeCounter = 2
  /\ led = "HIGH" /\ pc["Alarma"] = "hold"
  /\ ledSemaphore = 0 /\ unanswered = 1


=============================================================================
